---- MODULE Spec2Model ----
(***************************************************************************)
(* State-machine model of src/src/Connection/socket.ts (makeSocket).       *)
(*                                                                         *)
(* One action of the model is one task of the JavaScript event loop: the   *)
(* synchronous code of a handler or of an API call, followed by the        *)
(* promise reactions (microtasks) that it makes runnable.                  *)
(***************************************************************************)
EXTENDS Integers, Sequences, FiniteSets, TLC

\* ------------------------------------------------------------------ bounds
MaxEpoch == 3          \* tags generated per run
MaxInflight == 2       \* transport writes whose callback has not fired yet
MaxEnds == 2           \* explicit end() calls made by the caller
MaxTicks == 4          \* clock steps
Queries == {1, 2}      \* slots for query / setQuery / waitForMessage calls

\* ------------------------------------------------------- program constants
FiveSeconds == 5000                \* socket.ts:279  keepAliveIntervalMs+5000
StatusOverloaded == 599            \* socket.ts:259
StatusDefault == 200               \* socket.ts:257
StatusNotExpected == 422           \* socket.ts:169
StatusConnClosed == 429            \* socket.ts:225
StatusBadRequest == 400            \* socket.ts:75, 78
ShortTagModulus == 1000            \* socket.ts:55
\* configuration (SocketConfig) and the clock's grain
keepAliveIntervalMs == 5000
TimeStep == keepAliveIntervalMs
\* ../Types DisconnectReason and ../Defaults, referenced by socket.ts
connectionClosed == 428
connectionLost == 408
connectionReplaced == 440
timedOut == 408
DEF_TAG_PREFIX == "TAG:"
DEF_CALLBACK_PREFIX == "CB:"
PHONE_CONNECTION_CB == "CB:Pong"

VARIABLES
    referenceDateSeconds,   \* l.30
    readyState,             \* ws.readyState
    wsListeners,            \* listeners on ws: <<event, listener, call>>
    socketListeners,        \* listeners on socketEvents: <<channel, listener, call>>
    lastDateRecv,           \* l.44: <<>> (undefined) or <<ms>>
    epoch,                  \* l.45
    authInfo,               \* l.46: <<>> (undefined) or <<keys>>
    keepAliveReq,           \* l.47: interval running
    phoneCheckInterval,     \* l.49: interval running
    phoneCheckListeners,    \* l.50
    calls,                  \* the query / setQuery / waitForMessage calls made
    inflight,               \* ws.send calls whose callback is still to come
    sendResult,             \* outcome of the last direct sendMessage call
    now,                    \* Date.now()
    keepAliveDue,           \* when the keep-alive interval fires next
    endLog,                 \* history: the argument of every end() call
    wsCloseDelivered,       \* history: what the 'ws-close' subscriber received
    lastInboundAt,          \* history: when the last inbound frame arrived
    pongRef,                \* history: timestamp of the last pong, else first tick
    tagLog,                 \* history: every tag generateMessageTag returned
    uncaught,               \* history: an exception escaped a timer callback
    openWaiter,             \* the waitForSocketOpen call made: its promise
    loggerLevel,            \* logger.level (l.22), a property the host may set
    routed                  \* history: what the last decoded payload was routed to

vars == <<referenceDateSeconds, readyState, wsListeners, socketListeners,
          lastDateRecv, epoch, authInfo, keepAliveReq, phoneCheckInterval,
          phoneCheckListeners, calls, inflight, sendResult, now, keepAliveDue,
          endLog, wsCloseDelivered, lastInboundAt, pongRef, tagLog, uncaught,
          openWaiter, loggerLevel, routed>>

\* The mutable state as one record, so that a handler is a function on it.
Cur == [readyState |-> readyState, wsListeners |-> wsListeners,
        socketListeners |-> socketListeners, lastDateRecv |-> lastDateRecv,
        epoch |-> epoch, authInfo |-> authInfo, keepAliveReq |-> keepAliveReq,
        phoneCheckInterval |-> phoneCheckInterval,
        phoneCheckListeners |-> phoneCheckListeners, calls |-> calls,
        inflight |-> inflight, sendResult |-> sendResult,
        keepAliveDue |-> keepAliveDue, endLog |-> endLog,
        wsCloseDelivered |-> wsCloseDelivered,
        lastInboundAt |-> lastInboundAt, pongRef |-> pongRef,
        tagLog |-> tagLog,
        uncaught |-> uncaught, openWaiter |-> openWaiter,
        loggerLevel |-> loggerLevel, routed |-> routed]

Commit(S) ==
    /\ readyState' = S.readyState
    /\ wsListeners' = S.wsListeners
    /\ socketListeners' = S.socketListeners
    /\ lastDateRecv' = S.lastDateRecv
    /\ epoch' = S.epoch
    /\ authInfo' = S.authInfo
    /\ keepAliveReq' = S.keepAliveReq
    /\ phoneCheckInterval' = S.phoneCheckInterval
    /\ phoneCheckListeners' = S.phoneCheckListeners
    /\ calls' = S.calls
    /\ inflight' = S.inflight
    /\ sendResult' = S.sendResult
    /\ keepAliveDue' = S.keepAliveDue
    /\ endLog' = S.endLog
    /\ wsCloseDelivered' = S.wsCloseDelivered
    /\ lastInboundAt' = S.lastInboundAt
    /\ pongRef' = S.pongRef
    /\ tagLog' = S.tagLog
    /\ uncaught' = S.uncaught
    /\ openWaiter' = S.openWaiter
    /\ loggerLevel' = S.loggerLevel
    /\ routed' = S.routed
    /\ UNCHANGED referenceDateSeconds

\* ------------------------------------------------------------------ values
Boom(message, statusCode, data) ==
    [kind |-> "Boom", message |-> message, statusCode |-> statusCode, data |-> data]
NoData == [query |-> "none"]
NoValue == [kind |-> "none"]

\* ----------------------------------------------------------- tag generator
\* l.56: epoch += 1
NextEpochStuck(e) == e
NextEpoch(e) == e + 1

\* l.55: `${longTag ? referenceDateSeconds : (referenceDateSeconds%1000)}.--${epoch}`
TagString(ref, longTag, e) ==
    ToString(IF longTag THEN ref ELSE ref % ShortTagModulus) \o ".--" \o ToString(e)

\* l.54-58: returns the tag and the state with the epoch incremented
generateMessageTag(S, longTag) ==
    LET tag == TagString(referenceDateSeconds, longTag, S.epoch)
    IN [tag |-> tag,
        S |-> [S EXCEPT !.epoch = NextEpoch(@),
                        !.tagLog = Append(@, [tag |-> tag, epoch |-> S.epoch])]]

\* ------------------------------------------------------- liveness monitor
\* l.181-196
startPhoneCheckInterval(S) ==
    [S EXCEPT !.phoneCheckListeners = @ + 1, !.phoneCheckInterval = TRUE]

\* l.197-204
clearPhoneCheckIntervalUnclamped(S) ==
    [S EXCEPT !.phoneCheckListeners = @ - 1,
              !.phoneCheckInterval = IF S.phoneCheckListeners - 1 <= 0 THEN FALSE ELSE @]
clearPhoneCheckInterval(S) ==
    IF S.phoneCheckListeners - 1 <= 0
    THEN [S EXCEPT !.phoneCheckInterval = FALSE, !.phoneCheckListeners = 0]
    ELSE [S EXCEPT !.phoneCheckListeners = @ - 1]

\* ---------------------------------------------------------------- teardown
\* l.100-103: the transport events whose listeners end() removes
EndDetachedEvents == {"close", "error", "open", "message"}

\* l.114: ws.removeAllListeners('ws-close')
KeepWsCloseListeners(L) == L
RemoveWsCloseListeners(L) == {l \in L : l[1] # "ws-close"}

\* l.112: ws.emit('ws-close', error): every subscriber receives the error
EmitWsClose(S, error) ==
    IF \E l \in S.wsListeners : l[1] = "ws-close"
    THEN [S EXCEPT !.wsCloseDelivered = Append(@, error)]
    ELSE S

\* l.97-115
end(S, error) ==
    LET S1 == [S EXCEPT !.wsListeners = {l \in @ : l[1] \notin EndDetachedEvents},
                        !.phoneCheckListeners = 0,
                        !.keepAliveReq = FALSE,
                        !.endLog = Append(@, error)]
        S2 == clearPhoneCheckInterval(S1)
        S3 == IF S2.readyState \notin {"CLOSED", "CLOSING"}
              THEN [S2 EXCEPT !.readyState = "CLOSING"]
              ELSE S2
        S4 == EmitWsClose(S3, error)
    IN [S4 EXCEPT !.wsListeners = RemoveWsCloseListeners(@)]

\* --------------------------------------------------------------- send path
\* l.59 with l.52: ws.send hands the frame to the transport when it is open and
\* fails without writing otherwise
SendError == [kind |-> "Error", message |-> "WebSocket is not open"]
sendRawMessageFirst(S, data, owner) ==
    IF S.readyState = "OPEN"
    THEN [S |-> [S EXCEPT !.inflight = <<[owner |-> owner, data |-> data]>> \o @],
          error |-> NoValue]
    ELSE [S |-> S, error |-> SendError]
sendRawMessage(S, data, owner) ==
    IF S.readyState = "OPEN"
    THEN [S |-> [S EXCEPT !.inflight = Append(@, [owner |-> owner, data |-> data])],
          error |-> NoValue]
    ELSE [S |-> S, error |-> SendError]

InvalidBinary == Boom("Invalid binary message. Must be BinaryNode", StatusBadRequest, NoData)
KeysMissing == Boom("No encryption/mac keys to encrypt node with", StatusBadRequest, NoData)

\* l.77: if(!authInfo)
KeysAbsentNever(a) == FALSE
KeysAbsent(a) == a = <<>>

\* l.64-96: o = [json, binaryTag, tag, longTag]; error is NoValue when the
\* frame was handed to the transport
sendMessage(S, o, owner) ==
    LET g == IF o.tag = <<>> THEN generateMessageTag(S, o.longTag)
             ELSE [tag |-> o.tag[1], S |-> S]
    IN IF o.binaryTag /\ ~o.json.isBinaryNode
       THEN [S |-> g.S, tag |-> g.tag, error |-> InvalidBinary]
       ELSE IF o.binaryTag /\ KeysAbsent(g.S.authInfo)
       THEN [S |-> g.S, tag |-> g.tag, error |-> KeysMissing]
       ELSE LET w == sendRawMessage(g.S,
                        [tag |-> g.tag, binary |-> o.binaryTag, json |-> o.json.id],
                        owner)
            IN [S |-> w.S, tag |-> g.tag, error |-> w.error]

\* ------------------------------------------------------------------ waiters
\* A call that was not made yet.
NoCall == [op |-> "none", tag |-> "", json |-> "none", expect200 |-> FALSE,
           requiresPhoneConnection |-> FALSE, timeoutMs |-> FALSE,
           st |-> "idle", result |-> NoValue,
           waiter |-> "none", wres |-> NoValue, cleaned |-> FALSE,
           cancel |-> <<>>, timeout |-> FALSE,
           \* history: the frame that resolved the waiter, whether query got past
           \* l.256, phoneCheckListeners and the number of teardowns at the call
           via |-> NoValue, resumed |-> FALSE, countBefore |-> 0, endsBefore |-> 0]

Settled(c) == c.st \in {"resolved", "rejected"}
WaiterSettled(c) == c.waiter \in {"resolved", "rejected"}

\* l.224: onRecv = resolve (a promise settles once)
resolve(S, q, json) ==
    IF S.calls[q].waiter = "pending"
    THEN [S EXCEPT !.calls[q].waiter = "resolved", !.calls[q].wres = json]
    ELSE S

reject(S, q, err) ==
    IF S.calls[q].waiter = "pending"
    THEN [S EXCEPT !.calls[q].waiter = "rejected", !.calls[q].wres = err]
    ELSE S

\* l.225: onErr = err => reject(err || new Boom('Connection Closed', 429))
ConnectionClosed429 == Boom("Connection Closed", StatusConnClosed, NoData)
onErr(S, q, err) ==
    reject(S, q, IF err.kind = "undefined" THEN ConnectionClosed429 ELSE err)

\* l.219: the value of onErr when it is handed to exitQueryIfResponseNotExpected.
\* onErr is declared at l.215 and first assigned at l.225, inside the executor
\* that runs after l.219: <<>> is undefined.
OnErrAtArming(q) == <<>>

\* l.227-229: the listeners waitForMessage registers
TagChannel(tag) == "TAG:" \o tag
WaiterWsListeners(q) == {<<"close", "onErr", q>>, <<"error", "onErr", q>>}

\* l.213-231, the synchronous part of waitForMessage for call q
waitForMessage(S, q) ==
    LET c == S.calls[q]
        S1 == IF c.requiresPhoneConnection
              THEN [startPhoneCheckInterval(S) EXCEPT
                        !.socketListeners = @ \cup {<<PHONE_CONNECTION_CB, "listener", q>>},
                        !.calls[q].cancel = OnErrAtArming(q)]
              ELSE S
    IN [S1 EXCEPT !.calls[q].waiter = "pending",
                  !.socketListeners = @ \cup {<<TagChannel(c.tag), "onRecv", q>>},
                  !.wsListeners = @ \cup WaiterWsListeners(q)]

\* l.175-178: the canceller returned by exitQueryIfResponseNotExpected
cancelPhoneChecker(S, q) ==
    [S EXCEPT !.socketListeners = @ \ {<<PHONE_CONNECTION_CB, "listener", q>>},
              !.calls[q].timeout = FALSE]

\* l.233-240: the finally block of waitForMessage
ReleaseLiveness(S, q) ==
    IF S.calls[q].requiresPhoneConnection
    THEN cancelPhoneChecker(clearPhoneCheckInterval(S), q)
    ELSE S

waitForMessageFinally(S, q) ==
    LET S1 == ReleaseLiveness(S, q)
    IN [S1 EXCEPT !.socketListeners = @ \ {<<TagChannel(S.calls[q].tag), "onRecv", q>>},
                  !.wsListeners = @ \ WaiterWsListeners(q),
                  !.calls[q].cleaned = TRUE]

\* the promise of call q settles with value v
SettleCall(S, q, st, v) ==
    [S EXCEPT !.calls[q].st = st, !.calls[q].result = v]

\* l.257: +(response.status ? response.status : 200)
responseStatusCode(response) ==
    IF response.status = <<>> \/ response.status[1] = 0
    THEN StatusDefault
    ELSE response.status[1]

\* l.262: expect200 && Math.floor(responseStatusCode/100) !== 2
Unexpected(expect200, code) == expect200 /\ (code \div 100) # 2

\* l.259-261
NoEndOn599(S, code) == S
EndIfOverloaded(S, code) ==
    IF code = StatusOverloaded
    THEN end(S, Boom("WA server overloaded", StatusOverloaded, NoData))
    ELSE S

\* l.256-269: query resumes after `await promise`
queryResume(S, q) ==
    LET c == S.calls[q]
    IN IF c.waiter = "rejected"
       THEN SettleCall(S, q, "rejected", c.wres)
       ELSE LET code == responseStatusCode(c.wres)
                S1 == EndIfOverloaded([S EXCEPT !.calls[q].resumed = TRUE], code)
            IN IF Unexpected(c.expect200, code)
               THEN SettleCall(S1, q, "rejected",
                        Boom("Unexpected status", c.wres.status[1], [query |-> c.json]))
               ELSE SettleCall(S1, q, "resolved", c.wres)

\* l.296-298: the promise of waitForSocketOpen settles once
settleOpenWaiter(S, st, v) ==
    IF S.openWaiter.st = "pending"
    THEN [S EXCEPT !.openWaiter = [st |-> st, result |-> v]]
    ELSE S

\* l.299-301: the listeners waitForSocketOpen registers on ws
OpenWaiterWsListeners ==
    {<<"open", "onOpen", 1>>, <<"close", "onClose", 1>>, <<"error", "onClose", 1>>}

\* l.303-307: finally, socketEvents.off('open' | 'close' | 'error', ...)
waitForSocketOpenFinally(S) ==
    [S EXCEPT !.socketListeners = @ \ OpenWaiterWsListeners]

\* l.289-302
ConnectionClosed428 == Boom("Connection Closed", connectionClosed, NoData)
waitForSocketOpen(S) ==
    IF S.readyState = "OPEN"
    THEN [S EXCEPT !.openWaiter = [st |-> "resolved", result |-> NoValue]]
    ELSE IF S.readyState \in {"CLOSED", "CLOSING"}
    THEN [S EXCEPT !.openWaiter = [st |-> "rejected", result |-> ConnectionClosed428]]
    ELSE [S EXCEPT !.openWaiter = [st |-> "pending", result |-> NoValue],
                   !.wsListeners = @ \cup OpenWaiterWsListeners]

\* the finally of waitForSocketOpen runs once its promise has settled
RunOpenFinally(S) ==
    IF S.openWaiter.st \in {"resolved", "rejected"} THEN waitForSocketOpenFinally(S) ELSE S

\* the promise reactions of one task: the finally block of every waiter the
\* task settled, then the callers awaiting those waiters
RECURSIVE RunFinally(_, _)
RunFinally(S, n) ==
    IF n = 0 THEN S
    ELSE LET T == RunFinally(S, n - 1)
         IN IF n \in Queries /\ WaiterSettled(T.calls[n]) /\ ~T.calls[n].cleaned
            THEN waitForMessageFinally(T, n)
            ELSE T

RECURSIVE RunResume(_, _)
RunResume(S, n) ==
    IF n = 0 THEN S
    ELSE LET T == RunResume(S, n - 1)
             c == T.calls[n]
         IN IF n \in Queries /\ WaiterSettled(c) /\ ~Settled(c)
            THEN IF c.op = "waitForMessage"
                 THEN SettleCall(T, n, c.waiter, c.wres)
                 ELSE IF c.st = "awaiting" THEN queryResume(T, n) ELSE T
            ELSE T

RunMicrotasks(S) ==
    RunResume(RunFinally(RunOpenFinally(S), Cardinality(Queries)), Cardinality(Queries))

\* ------------------------------------------------------------ inbound path
\* decoded payloads: a response object, ['Pong', connected] and
\* ['Cmd', {type: 'disconnect', kind}]
Response(status) ==
    [header |-> "", attrs |-> <<>>, flag |-> FALSE, child |-> "", status |-> status]
PongMessage(connected) ==
    [header |-> "Pong", attrs |-> <<>>, flag |-> connected, child |-> "", status |-> <<>>]
CmdDisconnect(kind) ==
    [header |-> "Cmd", attrs |-> <<<<"type", "disconnect">>, <<"kind", kind>>>>,
     flag |-> FALSE, child |-> "", status |-> <<>>]

\* json[1] as a condition: an attributes object is truthy, else the bare value
Json1(json) == IF json.attrs # <<>> THEN TRUE ELSE json.flag
\* json[1].kind
Json1Kind(json) ==
    IF \E i \in 1..Len(json.attrs) : json.attrs[i][1] = "kind"
    THEN (CHOOSE a \in {json.attrs[i] : i \in 1..Len(json.attrs)} : a[1] = "kind")[2]
    ELSE "unknown"

\* l.144-154: the routing keys of a payload, in the order they are emitted
KeyChannels(l0, kv, l2) ==
    << DEF_CALLBACK_PREFIX \o l0 \o "," \o kv[1] \o ":" \o kv[2] \o "," \o l2,
       DEF_CALLBACK_PREFIX \o l0 \o "," \o kv[1] \o ":" \o kv[2],
       DEF_CALLBACK_PREFIX \o l0 \o "," \o kv[1] >>

RECURSIVE AttrChannels(_, _, _)
AttrChannels(l0, attrs, l2) ==
    IF attrs = <<>> THEN <<>>
    ELSE KeyChannels(l0, Head(attrs), l2) \o AttrChannels(l0, Tail(attrs), l2)

CallbackChannels(json) ==
    AttrChannels(json.header, json.attrs, json.child)
        \o << DEF_CALLBACK_PREFIX \o json.header \o ",," \o json.child,
              DEF_CALLBACK_PREFIX \o json.header >>

\* l.165-173: the listener exitQueryIfResponseNotExpected registers for call q
phoneCheckerListener(S, q, json) ==
    IF Json1(json)
    THEN [S EXCEPT !.calls[q].timeout = TRUE,
                   !.socketListeners = @ \ {<<PHONE_CONNECTION_CB, "listener", q>>}]
    ELSE S

\* l.318-325
onPhoneConnection(S, json) ==
    IF ~Json1(json)
    THEN end(S, Boom("Connection terminated by phone", connectionLost, NoData))
    ELSE S

\* l.326-341
onCmdDisconnect(S, json) ==
    end(S, Boom("Connection terminated by server",
                IF Json1Kind(json) = "replaced" THEN connectionReplaced ELSE connectionLost,
                NoData))

\* one listener of socketEvents runs
InvokeSocketListener(S, l, json) ==
    CASE l[2] = "onRecv" -> resolve(S, l[3], json)
      [] l[2] = "listener" -> phoneCheckerListener(S, l[3], json)
      [] l[2] = "phoneConnection" -> onPhoneConnection(S, json)
      [] l[2] = "disconnect" -> onCmdDisconnect(S, json)
      [] l[2] = "subscriber" ->
           [S EXCEPT !.routed.delivered = @ \cup {<<l[1], json>>}]
      [] OTHER -> S

RECURSIVE InvokeAll(_, _, _)
InvokeAll(S, L, json) ==
    IF L = {} THEN S
    ELSE LET l == CHOOSE x \in L : TRUE
         IN InvokeAll(InvokeSocketListener(S, l, json), L \ {l}, json)

\* socketEvents.emit(channel, json): the listeners registered when emit starts
ChannelListenersAny(S, channel) ==
    {l \in S.socketListeners : l[2] = "onRecv" \/ l[1] = channel}
ChannelListeners(S, channel) == {l \in S.socketListeners : l[1] = channel}

emit(S, channel, json) == InvokeAll(S, ChannelListeners(S, channel), json)

RECURSIVE EmitEach(_, _, _)
EmitEach(S, channels, json) ==
    IF channels = <<>> THEN S
    ELSE EmitEach(emit(S, Head(channels), json), Tail(channels), json)

\* l.140-154: anyTriggered, the disjunction of what the emit calls return; an
\* emit returns true when its channel has a listener at the time it starts
RECURSIVE AnyTriggered(_, _, _)
AnyTriggered(S, channels, json) ==
    IF channels = <<>> THEN FALSE
    ELSE \/ ChannelListeners(S, Head(channels)) # {}
         \/ AnyTriggered(emit(S, Head(channels), json), Tail(channels), json)

\* l.142-154: the channels a decoded payload is emitted on, in order
RoutingChannels(frame) ==
    <<DEF_TAG_PREFIX \o frame.tag>> \o CallbackChannels(frame.json)

\* l.156-158: logger.debug({ unhandled: true, ... })
NothingRouted == [delivered |-> {}, unhandled |-> FALSE]
DebugOrTrace(level) == level \in {"debug", "trace"}
IsDebug(level) == level = "debug"
ReportUnhandled(S0, S1, frame) ==
    IF ~AnyTriggered(S0, RoutingChannels(frame), frame.json) /\ IsDebug(S0.loggerLevel)
    THEN [S1 EXCEPT !.routed.unhandled = TRUE]
    ELSE S1

\* l.140-158
routeMessage(S, frame) ==
    LET S0 == [S EXCEPT !.routed = NothingRouted]
    IN ReportUnhandled(S0, EmitEach(S0, RoutingChannels(frame), frame.json), frame)

DecodeError == [kind |-> "Error", message |-> "decode failed"]

\* l.120: a pong moves lastDateRecv to the timestamp it carries
SetLastDateRecv(S, timestamp) == [S EXCEPT !.lastDateRecv = <<timestamp>>]

\* l.130-133: catch (error) { end(error); return }
swallowDecodeError(S, error) == S
onDecodeError(S, error) == end(S, error)

\* l.116-160
onMessageRecieved(S, frame) ==
    CASE frame.type = "pong" -> SetLastDateRecv(S, frame.timestamp)
      [] frame.type = "undecodable" -> onDecodeError(S, DecodeError)
      [] frame.type = "empty" -> S
      [] frame.type = "bufferPong" ->
           IF frame.decoder = "throws" THEN onDecodeError(S, DecodeError) ELSE S
      [] OTHER -> routeMessage(S, frame)

\* ws.emit(event, arg) for 'error' and 'close': the listeners registered when
\* emit starts all run, also those that end() removes meanwhile
InvokeWsListener(S, l, arg) ==
    CASE l[2] = "end" -> end(S, arg)
      [] l[2] = "endOnClose" ->
           end(S, Boom("Connection Terminated", connectionLost, NoData))
      [] l[2] = "onErr" -> onErr(S, l[3], arg)
      [] l[2] = "onClose" -> settleOpenWaiter(S, "rejected", arg)
      [] OTHER -> S

RECURSIVE InvokeAllWs(_, _, _)
InvokeAllWs(S, L, arg) ==
    IF L = {} THEN S
    ELSE LET l == CHOOSE x \in L : TRUE
         IN InvokeAllWs(InvokeWsListener(S, l, arg), L \ {l}, arg)

wsEmit(S, event, arg) ==
    InvokeAllWs(S, {l \in S.wsListeners : l[1] = event}, arg)

\* ------------------------------------------------------------------ inputs
LoggerLevels == {"info", "debug", "trace"}
\* a pushed payload ['action', {add: 'relay'}, [['message', ...]]]
ActionPayload ==
    [header |-> "action", attrs |-> <<<<"add", "relay">>>>, flag |-> FALSE,
     child |-> "message", status |-> <<>>]
ReferenceDates == {1700000123}
PlainJson == [id |-> "query", isBinaryNode |-> FALSE]
Node == [id |-> "node", isBinaryNode |-> TRUE]
ActionNode == [id |-> "action", isBinaryNode |-> TRUE]
CallerTags == {"s1"}

\* options of query (SocketQueryOptions)
QueryOptions ==
    { [json |-> PlainJson, binaryTag |-> FALSE, tag |-> <<>>, longTag |-> FALSE,
       timeoutMs |-> FALSE, expect200 |-> TRUE, requiresPhoneConnection |-> TRUE],
      [json |-> PlainJson, binaryTag |-> FALSE, tag |-> <<>>, longTag |-> TRUE,
       timeoutMs |-> TRUE, expect200 |-> FALSE, requiresPhoneConnection |-> FALSE],
      [json |-> Node, binaryTag |-> TRUE, tag |-> <<>>, longTag |-> FALSE,
       timeoutMs |-> TRUE, expect200 |-> TRUE, requiresPhoneConnection |-> TRUE],
      [json |-> PlainJson, binaryTag |-> TRUE, tag |-> <<>>, longTag |-> FALSE,
       timeoutMs |-> FALSE, expect200 |-> FALSE, requiresPhoneConnection |-> FALSE],
      [json |-> PlainJson, binaryTag |-> FALSE, tag |-> <<"s1">>, longTag |-> FALSE,
       timeoutMs |-> FALSE, expect200 |-> FALSE, requiresPhoneConnection |-> TRUE] }

\* options of sendMessage (SocketSendMessageOptions)
SendOptions ==
    { [json |-> PlainJson, binaryTag |-> FALSE, tag |-> <<>>, longTag |-> TRUE],
      [json |-> Node, binaryTag |-> TRUE, tag |-> <<>>, longTag |-> FALSE],
      [json |-> PlainJson, binaryTag |-> TRUE, tag |-> <<"s1">>, longTag |-> FALSE] }

Statuses == {<<>>, <<0>>, <<200>>, <<404>>, <<599>>}
Payloads ==
    {Response(s) : s \in Statuses}
        \cup {PongMessage(b) : b \in BOOLEAN}
        \cup {CmdDisconnect(k) : k \in {"replaced", "other"}}

Clock == {t * TimeStep : t \in 0..MaxTicks}
Undefined == [kind |-> "undefined"]
Intentional == Boom("Intentional", connectionClosed, NoData)
CallerReasons == {Undefined, Intentional}
TransportErrors == {[kind |-> "Error", message |-> "socket error"]}
CloseCodes == {[kind |-> "closeCode", code |-> 1006]}

\* the tags inbound frames may carry: those awaited, and a server-chosen one
FrameTags(S) == {S.calls[q].tag : q \in {x \in Queries : S.calls[x].op # "none"}} \cup CallerTags

\* a string frame "!<ms>": l.117 finds message[0] === '!'
PongFrames == {[type |-> "pong", timestamp |-> t] : t \in {x \in Clock : x <= now}}
\* the same bytes delivered as a Buffer: message[0] is the number 33, which is
\* not === '!', so l.117 fails and the frame goes to the decoder of l.126,
\* which throws or returns nothing
BufferPongFrames ==
    {[type |-> "bufferPong", timestamp |-> t, decoder |-> d] :
        t \in {x \in Clock : x <= now}, d \in {"throws", "empty"}}
BadFrames == {[type |-> "undecodable"], [type |-> "empty"]}
MessageFrames(S, P) ==
    {[type |-> "message", tag |-> t, json |-> j] : t \in FrameTags(S), j \in P}
Frames(S) == PongFrames \cup BadFrames \cup MessageFrames(S, Payloads)

\* ------------------------------------------------------------------- state
Init ==
    /\ referenceDateSeconds \in ReferenceDates
    /\ readyState = "CONNECTING"
    /\ wsListeners = {<<"message", "onMessageRecieved", 0>>, <<"open", "onOpen", 0>>,
                      <<"error", "end", 0>>, <<"close", "endOnClose", 0>>}
    /\ socketListeners = {<<PHONE_CONNECTION_CB, "phoneConnection", 0>>,
                          <<"CB:Cmd,type:disconnect", "disconnect", 0>>}
    /\ lastDateRecv = <<>>
    /\ epoch = 0
    /\ authInfo = <<>>
    /\ keepAliveReq = FALSE
    /\ phoneCheckInterval = FALSE
    /\ phoneCheckListeners = 0
    /\ calls = [q \in Queries |-> NoCall]
    /\ inflight = <<>>
    /\ sendResult = NoValue
    /\ now = 0
    /\ keepAliveDue = 0
    /\ endLog = <<>>
    /\ wsCloseDelivered = <<>>
    /\ lastInboundAt = 0
    /\ pongRef = <<>>
    /\ tagLog = <<>>
    /\ uncaught = FALSE
    /\ openWaiter = [st |-> "none", result |-> NoValue]
    /\ loggerLevel = "info"
    /\ routed = NothingRouted

\* a step may generate a tag / hand a frame to the transport
CanGenerate == epoch < MaxEpoch
CanWrite == Len(inflight) < MaxInflight
NextSlot(q) == calls[q].op = "none" /\ \A p \in Queries : p < q => calls[p].op # "none"

\* ----------------------------------------------------------------- actions
\* l.346
CallUpdateKeys ==
    /\ authInfo = <<>>
    /\ Commit([Cur EXCEPT !.authInfo = <<"keys">>])
    /\ UNCHANGED now

\* l.350
CallGenerateMessageTag(longTag) ==
    /\ CanGenerate
    /\ Commit(generateMessageTag(Cur, longTag).S)
    /\ UNCHANGED now

\* l.349, l.64-96
CallSendMessage(o) ==
    /\ CanGenerate /\ CanWrite
    /\ LET r == sendMessage(Cur, o, 0)
       IN Commit([r.S EXCEPT !.sendResult =
                     IF r.error = NoValue THEN [kind |-> "pending"] ELSE r.error])
    /\ UNCHANGED now

\* the call record of a query made with options o and tag
NewCall(op, o, tag) ==
    [NoCall EXCEPT !.op = op, !.tag = tag, !.json = o.json.id,
                   !.expect200 = o.expect200,
                   !.requiresPhoneConnection = o.requiresPhoneConnection,
                   !.timeoutMs = o.timeoutMs, !.st = "sending",
                   !.countBefore = phoneCheckListeners, !.endsBefore = Len(endLog)]

\* l.249-255: query up to its first suspension
query(S, q, op, o) ==
    LET g == IF o.tag = <<>> THEN generateMessageTag(S, o.longTag)
             ELSE [tag |-> o.tag[1], S |-> S]
        S1 == [g.S EXCEPT !.calls[q] = NewCall(op, o, g.tag)]
        S2 == waitForMessage(S1, q)
        r == sendMessage(S2, [json |-> o.json, tag |-> <<g.tag>>,
                              binaryTag |-> o.binaryTag, longTag |-> FALSE], q)
    IN IF r.error = NoValue THEN r.S ELSE SettleCall(r.S, q, "rejected", r.error)

\* l.352
CallQuery(q, o) ==
    /\ NextSlot(q) /\ CanGenerate /\ CanWrite
    /\ Commit(RunMicrotasks(query(Cur, q, "query", o)))
    /\ UNCHANGED now

\* l.354-363
CallSetQuery(q, tag) ==
    /\ NextSlot(q) /\ CanGenerate /\ CanWrite
    /\ Commit(RunMicrotasks(query(Cur, q, "setQuery",
                [json |-> ActionNode, binaryTag |-> TRUE, tag |-> tag, longTag |-> FALSE,
                 timeoutMs |-> FALSE, expect200 |-> TRUE,
                 requiresPhoneConnection |-> TRUE])))
    /\ UNCHANGED now

\* l.351, l.213-241
CallWaitForMessage(q, tag, requiresPhoneConnection) ==
    /\ NextSlot(q)
    /\ LET c == [NoCall EXCEPT !.op = "waitForMessage", !.tag = tag,
                               !.requiresPhoneConnection = requiresPhoneConnection,
                               !.timeoutMs = TRUE, !.st = "awaiting",
                               !.countBefore = phoneCheckListeners,
                               !.endsBefore = Len(endLog)]
       IN Commit(waitForMessage([Cur EXCEPT !.calls[q] = c], q))
    /\ UNCHANGED now

\* l.347, l.289-308
CallWaitForSocketOpen ==
    /\ openWaiter.st = "none"
    /\ Commit(RunMicrotasks(waitForSocketOpen(Cur)))
    /\ UNCHANGED now

\* l.365
CallEnd(error) ==
    /\ Len(endLog) < MaxEnds
    /\ Commit(RunMicrotasks(end(Cur, error)))
    /\ UNCHANGED now

\* l.345: a user of the socket subscribes to the terminal notification
SubscribeWsClose ==
    /\ endLog = <<>>
    /\ <<"ws-close", "subscriber", 0>> \notin wsListeners
    /\ Commit([Cur EXCEPT !.wsListeners = @ \cup {<<"ws-close", "subscriber", 0>>}])
    /\ UNCHANGED now

\* l.344: socketEvents is exported; the host subscribes with socketEvents.on
SubscribeChannel(channel) ==
    /\ <<channel, "subscriber", 0>> \notin socketListeners
    /\ Commit([Cur EXCEPT !.socketListeners = @ \cup {<<channel, "subscriber", 0>>}])
    /\ UNCHANGED now

\* l.22: the logger is the host's object; the host sets logger.level
SetLoggerLevel(level) ==
    /\ loggerLevel # level
    /\ Commit([Cur EXCEPT !.loggerLevel = level])
    /\ UNCHANGED now

\* l.59: the callback of the oldest pending ws.send fires
WriteError == [kind |-> "Error", message |-> "write failed"]
WriteComplete(ok) ==
    /\ inflight # <<>>
    /\ LET w == Head(inflight)
           S1 == [Cur EXCEPT !.inflight = Tail(@)]
           S2 == IF w.owner \in Queries /\ S1.calls[w.owner].st = "sending"
                 THEN IF ok THEN [S1 EXCEPT !.calls[w.owner].st = "awaiting"]
                      ELSE SettleCall(S1, w.owner, "rejected", WriteError)
                 ELSE IF w.owner = 0
                 THEN [S1 EXCEPT !.sendResult =
                          IF ok THEN [kind |-> "returned"] ELSE WriteError]
                 ELSE S1
       IN Commit(RunMicrotasks(S2))
    /\ UNCHANGED now

\* l.311-314: the transport opens
startKeepAliveRequest(S) ==
    [S EXCEPT !.keepAliveReq = TRUE, !.keepAliveDue = now + keepAliveIntervalMs,
              !.lastInboundAt = now]

TransportOpen ==
    /\ readyState = "CONNECTING"
    /\ LET S1 == [Cur EXCEPT !.readyState = "OPEN"]
           S2 == IF <<"open", "onOpen", 0>> \in S1.wsListeners
                 THEN startKeepAliveRequest(S1) ELSE S1
           S3 == IF <<"open", "onOpen", 1>> \in S1.wsListeners
                 THEN settleOpenWaiter(S2, "resolved", NoValue) ELSE S2
       IN Commit(RunMicrotasks(S3))
    /\ UNCHANGED now

\* l.315: the transport reports an error
TransportError(err) ==
    /\ readyState \in {"CONNECTING", "OPEN"}
    /\ Commit(RunMicrotasks(wsEmit([Cur EXCEPT !.readyState = "CLOSING"], "error", err)))
    /\ UNCHANGED now

\* the peer starts the closing handshake
TransportClosing ==
    /\ readyState = "OPEN"
    /\ Commit([Cur EXCEPT !.readyState = "CLOSING"])
    /\ UNCHANGED now

\* l.316: the transport has closed
TransportClose(code) ==
    /\ readyState \in {"OPEN", "CLOSING"}
    /\ Commit(RunMicrotasks(wsEmit([Cur EXCEPT !.readyState = "CLOSED"], "close", code)))
    /\ UNCHANGED now

\* history: which frame resolved a waiter, when traffic arrived, the last pong
Stamp(S0, S1, frame) ==
    [S1 EXCEPT !.lastInboundAt = now,
               !.pongRef = IF frame.type = "pong" THEN <<frame.timestamp>> ELSE @,
               !.calls = [q \in Queries |->
                   IF S0.calls[q].waiter = "pending" /\ S1.calls[q].waiter = "resolved"
                   THEN [S1.calls[q] EXCEPT !.via = frame]
                   ELSE S1.calls[q]]]

\* l.310: a frame arrives
InboundFrame(frame) ==
    /\ readyState = "OPEN"
    /\ <<"message", "onMessageRecieved", 0>> \in wsListeners
    /\ Commit(RunMicrotasks(Stamp(Cur, onMessageRecieved(Cur, frame), frame)))
    /\ UNCHANGED now

\* l.279: diff > keepAliveIntervalMs+5000
TooLongOrEqual(diff) == diff >= keepAliveIntervalMs + FiveSeconds
TooLong(diff) == diff > keepAliveIntervalMs + FiveSeconds

\* l.272-286: one firing of the keep-alive interval
keepAliveTick(S) ==
    LET S1 == IF S.lastDateRecv = <<>> THEN [S EXCEPT !.lastDateRecv = <<now>>] ELSE S
        diff == now - S1.lastDateRecv[1]
    IN IF TooLong(diff)
       THEN end(S1, Boom("Connection was lost", connectionLost, NoData))
       ELSE IF S1.readyState = "OPEN"
       THEN sendRawMessage(S1, [tag |-> "?", binary |-> FALSE, json |-> ""], 0 - 1).S
       ELSE S1

KeepAliveTick ==
    /\ keepAliveReq /\ now >= keepAliveDue /\ CanWrite
    /\ Commit(RunMicrotasks(
           [keepAliveTick(Cur) EXCEPT !.keepAliveDue = now + keepAliveIntervalMs,
                                      !.pongRef = IF @ = <<>> THEN <<now>> ELSE @]))
    /\ UNCHANGED now

\* l.185-194: one firing of the phone check interval
phoneCheckTick(S) ==
    IF S.phoneCheckListeners <= 0 THEN S
    ELSE sendMessage(S, [json |-> [id |-> "admin,test", isBinaryNode |-> FALSE],
                         binaryTag |-> FALSE, tag |-> <<>>, longTag |-> FALSE], 0 - 1).S

PhoneCheckTick ==
    /\ phoneCheckInterval /\ CanGenerate /\ CanWrite
    /\ Commit(phoneCheckTick(Cur))
    /\ UNCHANGED now

\* ../Utils promiseTimeout: the timeout of a waiter elapses
TimedOut == Boom("Timed Out", timedOut, NoData)
WaiterTimeout(q) ==
    /\ calls[q].waiter = "pending" /\ calls[q].timeoutMs
    /\ Commit(RunMicrotasks(reject(Cur, q, TimedOut)))
    /\ UNCHANGED now

\* l.167-170: the grace timer of call q fires and calls cancel
NotExpecting == Boom("Not expecting a response", StatusNotExpected, NoData)
graceTimeout(S, q) ==
    LET S1 == [S EXCEPT !.calls[q].timeout = FALSE]
    IN IF S.calls[q].cancel = <<>>
       THEN [S1 EXCEPT !.uncaught = TRUE]
       ELSE onErr(S1, S.calls[q].cancel[1], NotExpecting)

GraceTimeout(q) ==
    /\ calls[q].timeout
    /\ Commit(RunMicrotasks(graceTimeout(Cur, q)))
    /\ UNCHANGED now

\* time passes
AdvanceTime ==
    /\ now < MaxTicks * TimeStep
    /\ now' = now + TimeStep
    /\ UNCHANGED <<referenceDateSeconds, readyState, wsListeners, socketListeners,
                   lastDateRecv, epoch, authInfo, keepAliveReq, phoneCheckInterval,
                   phoneCheckListeners, calls, inflight, sendResult, keepAliveDue,
                   endLog, wsCloseDelivered, lastInboundAt, pongRef, tagLog,
                   uncaught, openWaiter, loggerLevel, routed>>

\* ---------------------------------------------------------- specifications
\* One call (any option of query, setQuery or waitForMessage) against every
\* event of the transport, every inbound frame and every timer but the clock.
NextSingle ==
    \/ CallUpdateKeys
    \/ \E o \in QueryOptions : CallQuery(1, o)
    \/ CallSetQuery(1, <<>>)
    \/ \E tag \in CallerTags : CallWaitForMessage(1, tag, TRUE)
    \/ CallEnd(Intentional)
    \/ \E ok \in BOOLEAN : WriteComplete(ok)
    \/ TransportOpen
    \/ \E err \in TransportErrors : TransportError(err)
    \/ TransportClosing
    \/ \E code \in CloseCodes : TransportClose(code)
    \/ \E frame \in Frames(Cur) : InboundFrame(frame)
    \/ WaiterTimeout(1)
    \/ GraceTimeout(1)
    \/ PhoneCheckTick

SpecSingle == Init /\ [][NextSingle]_vars

\* A pending call against every trigger of a teardown, with the scheduling
\* Node.js guarantees: an armed timer fires, the callback of a write is called,
\* a closing transport emits 'close'.
PendingOptions == {o \in QueryOptions : ~o.binaryTag /\ o.tag = <<>>}
PendingFrames(S) ==
    {[type |-> "undecodable"]}
        \cup MessageFrames(S, {Response(<<>>), Response(<<599>>), PongMessage(TRUE),
                               CmdDisconnect("replaced")})
NextPending ==
    \/ \E o \in PendingOptions : CallQuery(1, o)
    \/ \E tag \in CallerTags : CallWaitForMessage(1, tag, FALSE)
    \/ CallEnd(Intentional)
    \/ \E ok \in BOOLEAN : WriteComplete(ok)
    \/ TransportOpen
    \/ \E err \in TransportErrors : TransportError(err)
    \/ \E code \in CloseCodes : TransportClose(code)
    \/ \E frame \in PendingFrames(Cur) : InboundFrame(frame)
    \/ KeepAliveTick
    \/ AdvanceTime
    \/ WaiterTimeout(1)
    \/ GraceTimeout(1)

SpecPending == Init /\ [][NextPending]_vars

FairPending ==
    /\ SpecPending
    /\ WF_vars(WaiterTimeout(1))
    /\ WF_vars(GraceTimeout(1))
    /\ WF_vars(\E ok \in BOOLEAN : WriteComplete(ok))
    /\ WF_vars(readyState = "CLOSING" /\ \E code \in CloseCodes : TransportClose(code))

\* waitForSocketOpen against the opening, the failure and the teardown of the
\* connection; a connecting transport opens or fails, a closing one closes.
NextOpen ==
    \/ CallWaitForSocketOpen
    \/ CallUpdateKeys
    \/ \E error \in CallerReasons : CallEnd(error)
    \/ SubscribeWsClose
    \/ TransportOpen
    \/ \E err \in TransportErrors : TransportError(err)
    \/ TransportClosing
    \/ \E code \in CloseCodes : TransportClose(code)
    \/ \E frame \in BadFrames : InboundFrame(frame)
    \/ KeepAliveTick
    \/ \E ok \in BOOLEAN : WriteComplete(ok)
    \/ AdvanceTime

SpecOpen == Init /\ [][NextOpen]_vars

FairOpen ==
    /\ SpecOpen
    /\ WF_vars(readyState = "CONNECTING"
                  /\ (TransportOpen \/ \E err \in TransportErrors : TransportError(err)))
    /\ WF_vars(readyState = "CLOSING" /\ \E code \in CloseCodes : TransportClose(code))

\* The classification of inbound frames: pongs as strings and as Buffers,
\* frames that decode and frames that do not, with a waiter and the watchdog.
NextClassify ==
    \/ TransportOpen
    \/ \E tag \in CallerTags : CallWaitForMessage(1, tag, TRUE)
    \/ \E frame \in PongFrames \cup BufferPongFrames \cup BadFrames
                       \cup MessageFrames(Cur, {Response(<<>>)}) :
           InboundFrame(frame)
    \/ \E ok \in BOOLEAN : WriteComplete(ok)
    \/ \E code \in CloseCodes : TransportClose(code)
    \/ WaiterTimeout(1)
    \/ KeepAliveTick
    \/ AdvanceTime

SpecClassify == Init /\ [][NextClassify]_vars

\* Concurrent calls: queries and waitForMessage with generated and
\* caller-supplied tags, responses in any order.
ConcurrentOptions == {o \in QueryOptions : ~o.binaryTag}
NextConcurrent ==
    \/ \E q \in Queries, o \in ConcurrentOptions : CallQuery(q, o)
    \/ \E q \in Queries, tag \in CallerTags : CallWaitForMessage(q, tag, TRUE)
    \/ \E ok \in BOOLEAN : WriteComplete(ok)
    \/ TransportOpen
    \/ \E err \in TransportErrors : TransportError(err)
    \/ \E frame \in Frames(Cur) : InboundFrame(frame)
    \/ \E q \in Queries : WaiterTimeout(q)

SpecConcurrent == Init /\ [][NextConcurrent]_vars

\* Every writer of the transport: sendMessage, query, the keep-alive probe and
\* the phone check probe, with the callbacks of the writes.
WriteOptions == {o \in QueryOptions : ~o.binaryTag /\ o.tag = <<>> /\ o.requiresPhoneConnection}
NextWrites ==
    \/ \E o \in SendOptions : CallSendMessage(o)
    \/ \E o \in WriteOptions : CallQuery(1, o)
    \/ \E ok \in BOOLEAN : WriteComplete(ok)
    \/ TransportOpen
    \/ KeepAliveTick
    \/ PhoneCheckTick
    \/ AdvanceTime

SpecWrites == Init /\ [][NextWrites]_vars

\* Routing of decoded payloads: host subscribers on callback and tag channels,
\* a tag waiter, every logger level, pushed and awaited payloads.
RoutedPayloads ==
    {ActionPayload, PongMessage(TRUE), Response(<<200>>)}
RoutedTags == CallerTags \cup {"push"}
RoutedFrames ==
    {[type |-> "message", tag |-> t, json |-> j] : t \in RoutedTags, j \in RoutedPayloads}
SubscriberChannels ==
    {"CB:action", "CB:action,add", "CB:action,add:relay", "CB:action,add:relay,message",
     "CB:action,,message", "CB:action,add:other"}
NextRouting ==
    \/ TransportOpen
    \/ \E level \in LoggerLevels : SetLoggerLevel(level)
    \/ \E channel \in SubscriberChannels : SubscribeChannel(channel)
    \/ \E tag \in CallerTags, p \in BOOLEAN : CallWaitForMessage(1, tag, p)
    \/ \E frame \in RoutedFrames : InboundFrame(frame)

SpecRouting == Init /\ [][NextRouting]_vars

\* Every trigger of end(): the caller, the transport, a frame that does not
\* decode, the keep-alive watchdog, a 599 response, a disconnect push.
TeardownOptions == {o \in QueryOptions : ~o.binaryTag /\ o.tag = <<>> /\ o.expect200}
TeardownFrames(S) ==
    {[type |-> "undecodable"]}
        \cup MessageFrames(S, {Response(<<599>>), PongMessage(FALSE), PongMessage(TRUE),
                               CmdDisconnect("replaced"), CmdDisconnect("other")})
NextTeardown ==
    \/ \E o \in TeardownOptions : CallQuery(1, o)
    \/ \E error \in CallerReasons : CallEnd(error)
    \/ SubscribeWsClose
    \/ \E ok \in BOOLEAN : WriteComplete(ok)
    \/ TransportOpen
    \/ \E err \in TransportErrors : TransportError(err)
    \/ \E code \in CloseCodes : TransportClose(code)
    \/ \E frame \in TeardownFrames(Cur) : InboundFrame(frame)
    \/ KeepAliveTick
    \/ AdvanceTime

SpecTeardown == Init /\ [][NextTeardown]_vars

\* The keep-alive watchdog against the clock and the inbound traffic.
NextKeepAlive ==
    \/ TransportOpen
    \/ TransportClosing
    \/ \E code \in CloseCodes : TransportClose(code)
    \/ \E frame \in PongFrames \cup BadFrames \cup MessageFrames(Cur, {Response(<<>>)}) :
           InboundFrame(frame)
    \/ \E ok \in BOOLEAN : WriteComplete(ok)
    \/ KeepAliveTick
    \/ AdvanceTime

SpecKeepAlive == Init /\ [][NextKeepAlive]_vars

\* The send path: sendMessage, query and setQuery with and without keys.
NextSend ==
    \/ CallUpdateKeys
    \/ \E o \in SendOptions : CallSendMessage(o)
    \/ \E o \in QueryOptions : CallQuery(1, o)
    \/ \E tag \in {<<>>, <<"s1">>} : CallSetQuery(1, tag)
    \/ \E ok \in BOOLEAN : WriteComplete(ok)
    \/ TransportOpen
    \/ \E code \in CloseCodes : TransportClose(code)

SpecSend == Init /\ [][NextSend]_vars

\* Everything that generates a tag.
NextTags ==
    \/ CallUpdateKeys
    \/ \E longTag \in BOOLEAN : CallGenerateMessageTag(longTag)
    \/ \E o \in SendOptions : CallSendMessage(o)
    \/ \E q \in Queries, o \in QueryOptions : CallQuery(q, o)
    \/ \E q \in Queries : CallSetQuery(q, <<>>)
    \/ \E ok \in {TRUE} : WriteComplete(ok)
    \/ TransportOpen
    \/ PhoneCheckTick

SpecTags == Init /\ [][NextTags]_vars

\* ------------------------------------------------------------------ claims
QueryCall(c) == c.op \in {"query", "setQuery"}

\* C1: a waiter resolves only with the payload of an inbound frame whose tag is
\* the waiter's own tag, whatever the order in which responses arrive, and the
\* query that owns the waiter resolves with that same payload.
C1_MatchedByTag ==
    \A q \in Queries :
        /\ calls[q].waiter = "resolved" =>
              /\ calls[q].via.type = "message"
              /\ calls[q].via.tag = calls[q].tag
              /\ calls[q].wres = calls[q].via.json
        /\ calls[q].st = "resolved" =>
              /\ calls[q].waiter = "resolved"
              /\ calls[q].result = calls[q].wres

\* two queries with distinct tags are pending and the one sent second has been
\* answered first
C1_Witness ==
    /\ QueryCall(calls[1]) /\ QueryCall(calls[2])
    /\ calls[1].tag # calls[2].tag
    /\ calls[1].st = "awaiting" /\ calls[1].waiter = "pending"
    /\ calls[2].st = "resolved" /\ calls[2].result = Response(<<404>>)

\* C2: whatever the sequence of teardown triggers, the subscriber of 'ws-close'
\* is notified exactly once, with the reason of the first end() call; no later
\* end() call notifies it again.
C2_NotifiedOnce ==
    /\ [](/\ Len(wsCloseDelivered) <= 1
          /\ wsCloseDelivered # <<>> => wsCloseDelivered[1] = endLog[1])
    /\ [][(<<"ws-close", "subscriber", 0>> \in wsListeners /\ endLog' # endLog)
             => wsCloseDelivered' = <<endLog'[1]>>]_vars

\* end() ran twice, for different reasons, and the subscriber holds the first
C2_Witness ==
    /\ Len(endLog) >= 2
    /\ endLog[2] # endLog[1]
    /\ wsCloseDelivered = <<endLog[1]>>

\* C3: when the grace timer armed by the peer-reachable signal fires for a query
\* that is still awaiting its response, the query rejects with the 422 error
\* 'Not expecting a response' and phoneCheckListeners is back at the value it had
\* before the query acquired it.
C3_GraceRejects422 ==
    [][\A q \in Queries :
          (/\ calls[q].timeout
           /\ calls[q].st = "awaiting" /\ calls[q].waiter = "pending"
           /\ GraceTimeout(q))
          => /\ calls'[q].st = "rejected"
             /\ calls'[q].result = NotExpecting
             /\ phoneCheckListeners' = calls[q].countBefore]_vars

KeepAliveProbe == [owner |-> 0 - 1, data |-> [tag |-> "?", binary |-> FALSE, json |-> ""]]
ConnectionWasLost == Boom("Connection was lost", connectionLost, NoData)
TornDownByTick == endLog' = Append(endLog, ConnectionWasLost)

\* C4 as claimed, for a tick that fires when it is due: while the connection is
\* open the tick tears it down exactly when more than keepAliveIntervalMs + 5000
\* ms passed since the last inbound traffic (a frame of any kind, or the opening
\* of the transport when no frame arrived yet), and otherwise sends the probe.
C4_TeardownIffNoTraffic ==
    [][(KeepAliveTick /\ readyState = "OPEN" /\ now = keepAliveDue)
          => /\ TornDownByTick <=> (now - lastInboundAt > keepAliveIntervalMs + FiveSeconds)
             /\ ~TornDownByTick => inflight' = Append(inflight, KeepAliveProbe)]_vars

\* C4 as amended: the tick tears the connection down exactly when more than
\* keepAliveIntervalMs + 5000 ms lie between the tick and the timestamp carried
\* by the last pong received (the first tick itself when no pong was received
\* yet); other inbound frames do not count; otherwise it sends the probe.
C4_TeardownIffPongStale ==
    [][(KeepAliveTick /\ readyState = "OPEN")
          => LET ref == IF pongRef = <<>> THEN now ELSE pongRef[1]
             IN /\ TornDownByTick <=> (now - ref > keepAliveIntervalMs + FiveSeconds)
                /\ ~TornDownByTick => /\ endLog' = endLog
                                      /\ inflight' = Append(inflight, KeepAliveProbe)]_vars

\* the watchdog tore the connection down although a frame arrived within the
\* window, after a pong had been received
C4_Witness ==
    /\ endLog = <<ConnectionWasLost>>
    /\ pongRef # <<>> /\ lastDateRecv = pongRef
    /\ now - lastInboundAt <= keepAliveIntervalMs + FiveSeconds
    /\ now - pongRef[1] > keepAliveIntervalMs + FiveSeconds

\* C5: once a query made with requiresPhoneConnection has settled, whatever the
\* outcome, phoneCheckListeners is back to its value before the call, the
\* peer-reachable canceller listener of the call is no longer registered and
\* its grace timer is not armed.
C5_ReleasedWhenSettled ==
    \A q \in Queries :
        (QueryCall(calls[q]) /\ calls[q].requiresPhoneConnection /\ Settled(calls[q]))
            => /\ phoneCheckListeners = calls[q].countBefore
               /\ <<PHONE_CONNECTION_CB, "listener", q>> \notin socketListeners
               /\ ~calls[q].timeout

\* the connection was torn down after call q was made
TornDownSince(q) == Len(endLog) > calls[q].endsBefore

\* C6: a waiter (of query, setQuery or waitForMessage, with or without a
\* timeout) that is pending when the connection is torn down eventually rejects.
C6_PendingRejectsOnTeardown ==
    \A q \in {1} :
        (calls[q].st \in {"sending", "awaiting"} /\ calls[q].waiter = "pending"
            /\ TornDownSince(q)) ~> (calls[q].st = "rejected")

ServerOverloaded == Boom("WA server overloaded", StatusOverloaded, NoData)
InEndLog(error) == \E i \in 1..Len(endLog) : endLog[i] = error

\* C7: a query that receives its matched response with status 599 has called
\* end with the server-overloaded error (status 599); it is rejected when it was
\* made with expect200 and resolved with the response otherwise.
C7_OverloadedTearsDown ==
    \A q \in Queries :
        (QueryCall(calls[q]) /\ calls[q].resumed /\ calls[q].wres.status = <<StatusOverloaded>>)
            => /\ InEndLog(ServerOverloaded)
               /\ calls[q].expect200 => calls[q].st = "rejected"
               /\ ~calls[q].expect200 =>
                      calls[q].st = "resolved" /\ calls[q].result = calls[q].wres
C7_Witness ==
    /\ QueryCall(calls[1]) /\ calls[1].resumed /\ ~calls[1].expect200
    /\ calls[1].st = "resolved" /\ calls[1].result = Response(<<StatusOverloaded>>)
    /\ endLog = <<ServerOverloaded>>

SuccessClass(s) == 200 <= s /\ s <= 299

\* C8: a query made with expect200 that receives its matched response rejects
\* with an error of status s and the request payload when the response carries
\* a status s outside 200..299, and resolves with the response when it carries
\* no status or a 2xx status; made without expect200 it resolves with the
\* response for every status.
C8_StatusDecidesOutcome ==
    \A q \in Queries :
        (QueryCall(calls[q]) /\ calls[q].resumed) =>
            LET c == calls[q]
                s == c.wres.status
            IN /\ (c.expect200 /\ s # <<>> /\ ~SuccessClass(s[1]))
                     => /\ c.st = "rejected"
                        /\ c.result.statusCode = s[1]
                        /\ c.result.data = [query |-> c.json]
               /\ (c.expect200 /\ (s = <<>> \/ (s # <<>> /\ SuccessClass(s[1]))))
                     => c.st = "resolved" /\ c.result = c.wres
               /\ ~c.expect200 => c.st = "resolved" /\ c.result = c.wres

\* the outcome of a send made by the step: of sendMessage, or of the query in
\* slot 1
SendFailsWith(error) ==
    /\ inflight' = inflight
    /\ \/ sendResult' = error
       \/ calls'[1].st = "rejected" /\ calls'[1].result = error

\* C9: sendMessage, query and setQuery of a BinaryNode payload with a binary
\* tag fail with the keys-missing error, writing nothing to the transport,
\* while updateKeys was never called; with a binary tag and a payload that is
\* not a BinaryNode they fail with the invalid-binary error, writing nothing.
C9_FailsBeforeWrite ==
    [][/\ \A o \in SendOptions :
            (CallSendMessage(o) /\ o.binaryTag)
                => /\ (o.json.isBinaryNode /\ authInfo = <<>>) => SendFailsWith(KeysMissing)
                   /\ ~o.json.isBinaryNode => SendFailsWith(InvalidBinary)
       /\ \A o \in QueryOptions :
            (CallQuery(1, o) /\ o.binaryTag)
                => /\ (o.json.isBinaryNode /\ authInfo = <<>>) => SendFailsWith(KeysMissing)
                   /\ ~o.json.isBinaryNode => SendFailsWith(InvalidBinary)
       /\ \A tag \in {<<>>, <<"s1">>} :
            (CallSetQuery(1, tag) /\ authInfo = <<>>) => SendFailsWith(KeysMissing)]_vars
C9_Witness ==
    /\ readyState = "OPEN" /\ authInfo = <<>> /\ inflight = <<>>
    /\ calls[1].op = "setQuery" /\ calls[1].st = "rejected"
    /\ calls[1].result = KeysMissing

\* C10: the tags generated on one connection are pairwise distinct, each embeds
\* the epoch at which it was generated, these epochs strictly increase from one
\* generated tag to the next, and currentEpoch never decreases.
C10_TagsDistinctEpochGrows ==
    /\ [](\A i \in 1..Len(tagLog) :
             /\ \E l \in BOOLEAN :
                    tagLog[i].tag = TagString(referenceDateSeconds, l, tagLog[i].epoch)
             /\ tagLog[i].epoch < epoch
             /\ \A j \in 1..Len(tagLog) :
                    i < j => /\ tagLog[i].tag # tagLog[j].tag
                             /\ tagLog[i].epoch < tagLog[j].epoch)
    /\ [][epoch' >= epoch]_vars
C10_Witness ==
    /\ Len(tagLog) = MaxEpoch
    /\ \E i, j \in 1..Len(tagLog) :
           /\ tagLog[i].tag = TagString(referenceDateSeconds, TRUE, tagLog[i].epoch)
           /\ tagLog[j].tag = TagString(referenceDateSeconds, FALSE, tagLog[j].epoch)
    /\ calls[1].op = "query" /\ calls[2].op = "setQuery"

OpenWaiterSettled == openWaiter.st \in {"resolved", "rejected"}

\* C11: waitForSocketOpen resolves at once when the transport is open, rejects
\* at once with the connection-closed error when it is closing or closed, and
\* called while connecting stays pending until the transport opens (it then
\* resolves) or reports an error or a close (it then rejects); a call pending
\* since the connecting state eventually settles once the connection is open
\* or was torn down.
C11_OpenWaiterSettles ==
    /\ [][/\ (CallWaitForSocketOpen /\ readyState = "OPEN")
               => openWaiter'.st = "resolved"
          /\ (CallWaitForSocketOpen /\ readyState \in {"CLOSING", "CLOSED"})
               => openWaiter' = [st |-> "rejected", result |-> ConnectionClosed428]
          /\ (CallWaitForSocketOpen /\ readyState = "CONNECTING")
               => openWaiter'.st = "pending"
          /\ (openWaiter.st = "pending" /\ TransportOpen) => openWaiter'.st = "resolved"
          /\ (openWaiter.st = "pending" /\ endLog = <<>>
                /\ \E err \in TransportErrors : TransportError(err))
               => openWaiter'.st = "rejected"]_vars
    /\ (openWaiter.st = "pending" /\ (readyState = "OPEN" \/ endLog # <<>>))
           ~> OpenWaiterSettled

\* call q has a pending waiter registered on the channel of its tag
PendingOnTag(q) ==
    /\ calls[q].waiter = "pending" /\ ~Settled(calls[q])
    /\ <<TagChannel(calls[q].tag), "onRecv", q>> \in socketListeners

\* C12: at most one pending waiter is registered on any tag channel, for tags
\* that were generated and for tags that the caller supplied.
C12_OneWaiterPerTag ==
    \A p, q \in Queries :
        (p # q /\ PendingOnTag(p) /\ PendingOnTag(q)) => calls[p].tag # calls[q].tag

UndecodableFrame == [type |-> "undecodable"]

\* C13: when an inbound frame that is not a pong fails to decode, end is called
\* with the decoder's error, and the frame reaches no tag waiter and no
\* subscriber of a routing key: no call changes and no listener is consumed.
C13_DecodeFailureTearsDown ==
    [][InboundFrame(UndecodableFrame)
          => /\ endLog' = Append(endLog, DecodeError)
             /\ calls' = calls
             /\ socketListeners' = socketListeners
             /\ lastDateRecv' = lastDateRecv]_vars
C13_Witness ==
    /\ endLog = <<DecodeError>>
    /\ calls[1].st = "awaiting" /\ calls[1].waiter = "pending"
    /\ calls[1].requiresPhoneConnection
    /\ readyState = "CLOSING"

\* the first byte of the frame is the pong marker '!'
FirstByteIsMarker(frame) == frame.type \in {"pong", "bufferPong"}

\* C14: an inbound frame whose first byte is '!' is handled as a pong:
\* lastDateRecv becomes the timestamp that follows the marker, the frame is not
\* decoded (so no decode failure tears the connection down) and no waiter or
\* subscriber changes.
C14_MarkerMeansPong ==
    [][\A frame \in PongFrames \cup BufferPongFrames :
          (InboundFrame(frame) /\ FirstByteIsMarker(frame))
              => /\ lastDateRecv' = <<frame.timestamp>>
                 /\ endLog' = endLog
                 /\ calls' = calls
                 /\ socketListeners' = socketListeners]_vars

\* the listeners call q of waitForMessage registered, on ws and on socketEvents
WaiterListenersLeft(q) ==
    \/ wsListeners \cap WaiterWsListeners(q) # {}
    \/ <<TagChannel(calls[q].tag), "onRecv", q>> \in socketListeners
    \/ <<PHONE_CONNECTION_CB, "listener", q>> \in socketListeners
    \/ calls[q].timeout

\* C15: once a call of waitForSocketOpen or of waitForMessage has settled, none
\* of the listeners it registered on the transport ('open', 'close', 'error')
\* or on the event router is still registered and its grace timer is not armed.
C15_NothingLeftRegistered ==
    /\ OpenWaiterSettled => wsListeners \cap OpenWaiterWsListeners = {}
    /\ \A q \in Queries :
           (calls[q].op = "waitForMessage" /\ Settled(calls[q])) => ~WaiterListenersLeft(q)

\* C16: after every operation phoneCheckListeners is not negative, also after
\* end and after a release that no acquire matches, and the phone check
\* interval is running exactly when the count is at least 1.
C16_CountClampedTimerMatches ==
    /\ phoneCheckListeners >= 0
    /\ phoneCheckInterval <=> phoneCheckListeners >= 1
\* both calls acquired; then end() zeroed the count and each waiter released
C16_Witness ==
    /\ endLog # <<>>
    /\ \A q \in Queries : calls[q].requiresPhoneConnection /\ calls[q].cleaned
    /\ phoneCheckListeners = 0 /\ ~phoneCheckInterval

\* the pending queries that were made with requiresPhoneConnection
PendingPhoneQueries ==
    {q \in Queries : /\ QueryCall(calls[q]) /\ calls[q].requiresPhoneConnection
                     /\ calls[q].st \in {"sending", "awaiting"}}

\* C17: while at least one query made with requiresPhoneConnection is pending,
\* the phone check interval is running and phoneCheckListeners is at least the
\* number of these queries.
C17_TimerCoversPendingQueries ==
    PendingPhoneQueries # {}
        => /\ phoneCheckInterval
           /\ phoneCheckListeners >= Cardinality(PendingPhoneQueries)

\* C18: a call of end() on a connection that was already torn down changes
\* nothing: phoneCheckListeners, the phone check interval, the listeners
\* registered on the transport and on the router, and the pending calls are as
\* before the call.
C18_SecondEndIsNoOp ==
    [][\A error \in CallerReasons :
          (CallEnd(error) /\ endLog # <<>>)
              => /\ phoneCheckListeners' = phoneCheckListeners
                 /\ phoneCheckInterval' = phoneCheckInterval
                 /\ wsListeners' = wsListeners
                 /\ socketListeners' = socketListeners
                 /\ calls' = calls]_vars

\* the step hands frames to the transport / the step is the callback of a write
WritesIssued == Len(inflight') > Len(inflight)
WriteCompleted == \E ok \in BOOLEAN : WriteComplete(ok)
\* the writes pending before the step keep their order, ahead of the new ones
OrderKept ==
    /\ WritesIssued => SubSeq(inflight', 1, Len(inflight)) = inflight
    /\ WriteCompleted => inflight' = Tail(inflight)

\* C19 as claimed: no write is issued while an earlier write has not completed,
\* and the frames are written in the order in which their sends were issued.
C19_WritesSerialized ==
    [][/\ WritesIssued => inflight = <<>>
       /\ OrderKept]_vars

\* C19 as amended: a write is issued at once, without waiting for the writes
\* still pending; each send appends its frame behind the pending ones and the
\* callbacks of the writes come in that order; a query's frame carries its tag.
C19_WritesInIssueOrder ==
    [][/\ OrderKept
       /\ WritesIssued => Len(inflight') = Len(inflight) + 1
       /\ \A o \in WriteOptions :
              (CallQuery(1, o) /\ readyState = "OPEN")
                  => /\ WritesIssued
                     /\ inflight'[Len(inflight')].owner = 1
                     /\ inflight'[Len(inflight')].data.tag = calls'[1].tag]_vars
C19_Witness ==
    /\ Len(inflight) = 2
    /\ inflight[1].owner = 1 /\ inflight[2].owner = 0 - 1
    /\ calls[1].st = "sending"

\* ---------------------------------------------------------------------- C20
\* The keys the claim lists for a payload with first label l0, attributes l1
\* and first child label l2, and the channel of the payload's tag.
ClaimedKeys(frame) ==
    LET l0 == frame.json.header
        l1 == {frame.json.attrs[i] : i \in 1..Len(frame.json.attrs)}
        l2 == frame.json.child
    IN {"TAG:" \o frame.tag, "CB:" \o l0, "CB:" \o l0 \o ",," \o l2}
         \cup {"CB:" \o l0 \o "," \o a[1] : a \in l1}
         \cup {"CB:" \o l0 \o "," \o a[1] \o ":" \o a[2] : a \in l1}
         \cup {"CB:" \o l0 \o "," \o a[1] \o ":" \o a[2] \o "," \o l2 : a \in l1}
SubscribedOn(frame) == {l \in socketListeners : l[1] \in ClaimedKeys(frame)}
\* every host subscriber on a claimed key received the payload, nothing else
\* was delivered, and a pending waiter on the tag was resolved with it
RoutedToAll(frame) ==
    /\ routed'.delivered =
           {<<l[1], frame.json>> : l \in {x \in SubscribedOn(frame) : x[2] = "subscriber"}}
    /\ \A q \in Queries :
           (<<"TAG:" \o frame.tag, "onRecv", q>> \in socketListeners
                /\ calls[q].waiter = "pending")
               => calls'[q].waiter = "resolved" /\ calls'[q].wres = frame.json
DebugEnabled == loggerLevel \in {"debug", "trace"}

\* C20 (as stated): a decoded payload reaches every subscriber on each of its
\* routing keys and the waiter on its tag, and (the logger printing debug
\* entries) it is reported as unhandled exactly when none of these channels
\* had a subscriber.
C20_RoutedAndReportedIffUnhandled ==
    [][\A frame \in RoutedFrames :
           InboundFrame(frame)
               => /\ RoutedToAll(frame)
                  /\ DebugEnabled => (routed'.unhandled <=> SubscribedOn(frame) = {})]_vars

\* C20 (amended): the same routing; the unhandled report is made exactly when
\* none of the channels had a listener and logger.level is 'debug'.
C20_RoutedAndReportedAtDebug ==
    [][\A frame \in RoutedFrames :
           InboundFrame(frame)
               => /\ RoutedToAll(frame)
                  /\ routed'.unhandled
                         <=> (SubscribedOn(frame) = {} /\ loggerLevel = "debug")]_vars

\* all five keys of a payload and the waiter on its tag were served
C20_Witness ==
    /\ Cardinality(routed.delivered) = 5
    /\ \A d \in routed.delivered : d[2] = ActionPayload
    /\ calls[1].waiter = "resolved" /\ calls[1].wres = ActionPayload
    /\ loggerLevel = "debug"

====
